---- MODULE Spec2Model ----
(* Model of mip/lists.py: the caching collections VarList and ConstrList,   *)
(* the callback views VVarList and VConstrList, and the solver interface    *)
(* they call (add_var, add_constr, remove_vars, remove_constrs, num_cols,   *)
(* num_rows).                                                               *)
(*                                                                          *)
(* Var and Constr objects are numbered in creation order (1, 2, ...); the   *)
(* mutable field idx of object h is var_idx[h] / constr_idx[h].  The views  *)
(* build a new Var/Constr on every lookup, so their results are given by    *)
(* the idx value alone.  The arguments obj, column, lin_expr and name are   *)
(* handed to the solver untouched and have no effect on the collections;    *)
(* they are left out of the recorded solver call.                           *)
EXTENDS Integers, Sequences, FiniteSets, TLC

VARIABLES
    vars,        \* VarList.__vars: sequence of Var objects
    var_idx,     \* Var.idx of every Var object created by VarList
    constrs,     \* ConstrList.__constrs: sequence of Constr objects
    constr_idx,  \* Constr.idx of every Constr object created by ConstrList
    cols,        \* solver columns, in order; each tagged with the Var made for it (0: none)
    rows,        \* solver rows, in order; each tagged with the Constr made for it (0: none)
    v_start,     \* VVarList.__start
    v_end,       \* VVarList.__end
    v_scoped,    \* TRUE iff the VVarList was constructed with start /= -1
    vc_frames,   \* VConstrList.__getitem__ calls in progress, one inside the other
    call,        \* the last call made to the solver
    ret          \* the last operation of a collection and its outcome

vars_all == <<vars, var_idx, constrs, constr_idx, cols, rows,
              v_start, v_end, v_scoped, vc_frames, call, ret>>

varSide == <<vars, var_idx, cols>>
constrSide == <<constrs, constr_idx, rows>>
viewSide == <<v_start, v_end, v_scoped, vc_frames>>

----------------------------------------------------------------------------
(* Bounds of the model *)

MaxObjects == 3    \* Var and Constr objects created by the caching collections
MaxLive == 5       \* the same, where remove is given live objects only
MaxCols == 4       \* solver columns
MaxRows == 3       \* solver rows
MaxKey == 5        \* integer keys are drawn from -MaxKey..MaxKey
MaxFrames == 3     \* nested calls the interpreter's stack holds before RecursionError

(* mip.constants *)
BINARY == "B"
CONTINUOUS == "C"
INTEGER == "I"

VarTypes == {BINARY, CONTINUOUS, INTEGER}
LowerBounds == {-1, 0}
UpperBounds == {1, 2}
Keys == (0 - MaxKey)..MaxKey

----------------------------------------------------------------------------
(* Python list semantics *)

\* Range counting from 1
Range_from1(n) == [i \in 1..n |-> i]

\* range(n) as the sequence <<0, ..., n-1>>
Range(n) == [i \in 1..n |-> i - 1]

\* ListPos with negative keys refused
ListPos_nonneg(n, key) ==
    IF key >= 0 /\ key < n THEN key + 1 ELSE 0

\* list[key] for an integer key: the 1-based position read or written,
\* 0 when Python raises IndexError
ListPos(n, key) ==
    IF key >= 0 /\ key < n THEN key + 1
    ELSE IF key < 0 /\ key + n >= 0 THEN key + n + 1
    ELSE 0

\* list.sort() of a list of integers
RECURSIVE SortInts(_)
SortInts(s) ==
    IF s = <<>> THEN <<>>
    ELSE LET m == CHOOSE p \in 1..Len(s) : \A q \in 1..Len(s) : s[p] <= s[q]
             rest == [j \in 1..(Len(s) - 1) |-> IF j < m THEN s[j] ELSE s[j + 1]]
         IN  <<s[m]>> \o SortInts(rest)

\* a set of objects as the list a caller passes, in creation order
RECURSIVE SetToSeq(_)
SetToSeq(S) ==
    IF S = {} THEN <<>>
    ELSE LET m == CHOOSE x \in S : \A y \in S : x <= y
         IN  <<m>> \o SetToSeq(S \ {m})

SeqElems(s) == {s[i] : i \in 1..Len(s)}

NoCall == [fn |-> "none", lb |-> 0, ub |-> 0, var_type |-> "", args |-> <<>>]
Ret(op, key, exc, val) == [op |-> op, key |-> key, exc |-> exc, val |-> val]

----------------------------------------------------------------------------
(* The solver, as far as the collections use it: an ordered array of        *)
(* columns and one of rows.                                                 *)

\* solver.num_cols()
num_cols == Len(cols)

\* solver.num_rows()
num_rows == Len(rows)

\* solver.add_var / solver.add_constr: the new entity goes to the end
EngineAppend(arr, tag) == Append(arr, tag)

\* solver.remove_vars / solver.remove_constrs: the entities at the given
\* positions are deleted and the gaps closed in order
EngineDelete(arr, positions) ==
    LET keep == {p \in 1..Len(arr) : \A j \in 1..Len(positions) : positions[j] /= p - 1}
        RECURSIVE Pack(_)
        Pack(p) == IF p > Len(arr) THEN <<>>
                   ELSE IF p \in keep THEN <<arr[p]>> \o Pack(p + 1)
                   ELSE Pack(p + 1)
    IN  Pack(1)

----------------------------------------------------------------------------
(* The removal algorithm of VarList.remove and ConstrList.remove *)

\* MarkLive marking the slots 0 .. len(xlist)-1 instead of the listed ones
MarkLive_prefix(n, xlist) ==
    IF \E j \in 1..Len(xlist) : ListPos(n, xlist[j]) = 0 THEN <<-1>>
    ELSE [p \in 1..n |-> IF p <= Len(xlist) THEN 0 ELSE 1]

\* lines 59-63 / 152-156: iv after the marking loop, or <<-1>> when one of
\* the assignments iv[i] = 0 raises IndexError
MarkLive(n, xlist) ==
    IF \E j \in 1..Len(xlist) : ListPos(n, xlist[j]) = 0 THEN <<-1>>
    ELSE [p \in 1..n |-> IF \E j \in 1..Len(xlist) : ListPos(n, xlist[j]) = p
                         THEN 0 ELSE 1]

\* Renumber with the survivors' idx left as it was
RECURSIVE Renumber_stale(_, _, _, _, _)
Renumber_stale(seq, idx, iv, p, i) ==
    IF p > Len(seq) THEN idx
    ELSE LET v == seq[p]
         IN  IF iv[ListPos(Len(iv), idx[v])] = 0
             THEN Renumber_stale(seq, [idx EXCEPT ![v] = -1], iv, p + 1, i)
             ELSE Renumber_stale(seq, idx, iv, p + 1, i + 1)

\* Renumber with the counter advanced for removed objects too
RECURSIVE Renumber_gaps(_, _, _, _, _)
Renumber_gaps(seq, idx, iv, p, i) ==
    IF p > Len(seq) THEN idx
    ELSE LET v == seq[p]
         IN  IF iv[ListPos(Len(iv), idx[v])] = 0
             THEN Renumber_gaps(seq, [idx EXCEPT ![v] = -1], iv, p + 1, i + 1)
             ELSE Renumber_gaps(seq, [idx EXCEPT ![v] = i], iv, p + 1, i + 1)

\* lines 65-71 / 158-164: the walk over the sequence from position p on,
\* with running counter i; the result is the idx field of every object
RECURSIVE Renumber(_, _, _, _, _)
Renumber(seq, idx, iv, p, i) ==
    IF p > Len(seq) THEN idx
    ELSE LET v == seq[p]
         IN  IF iv[ListPos(Len(iv), idx[v])] = 0
             THEN Renumber(seq, [idx EXCEPT ![v] = -1], iv, p + 1, i)
             ELSE Renumber(seq, [idx EXCEPT ![v] = i], iv, p + 1, i + 1)

\* Compact keeping only the objects with idx > 0
RECURSIVE Compact_positive(_, _)
Compact_positive(seq, idx) ==
    IF seq = <<>> THEN <<>>
    ELSE IF idx[Head(seq)] > 0
         THEN <<Head(seq)>> \o Compact_positive(Tail(seq), idx)
    ELSE Compact_positive(Tail(seq), idx)

\* Compact with nothing dropped
Compact_all(seq, idx) == seq

\* lines 72-74 / 165-167: the objects whose idx is not -1, in order
RECURSIVE Compact(_, _)
Compact(seq, idx) ==
    IF seq = <<>> THEN <<>>
    ELSE IF idx[Head(seq)] /= -1 THEN <<Head(seq)>> \o Compact(Tail(seq), idx)
    ELSE Compact(Tail(seq), idx)

----------------------------------------------------------------------------
Init ==
    /\ vars = <<>>
    /\ var_idx = <<>>
    /\ constrs = <<>>
    /\ constr_idx = <<>>
    /\ cols = <<>>
    /\ rows = <<>>
    /\ v_start = 0
    /\ v_end = 0
    /\ v_scoped = FALSE
    /\ vc_frames = 0
    /\ call = NoCall
    /\ ret = Ret("init", 0, "", 0)

----------------------------------------------------------------------------
(* VarList *)

\* AddBounds with only the upper bound forced
AddBounds_ub(lb, ub, var_type) ==
    IF var_type = BINARY THEN <<lb, 1>> ELSE <<lb, ub>>

\* the bounds handed to add_var
AddBounds(lb, ub, var_type) ==
    IF var_type = BINARY THEN <<0, 1>> ELSE <<lb, ub>>

VarList_add(lb, ub, var_type) ==
    LET b == AddBounds(lb, ub, var_type)
        new_var == Len(var_idx) + 1
    IN  /\ var_idx' = Append(var_idx, Len(vars))
        /\ cols' = EngineAppend(cols, new_var)
        /\ call' = [fn |-> "add_var", lb |-> b[1], ub |-> b[2],
                    var_type |-> var_type, args |-> <<>>]
        /\ vars' = Append(vars, new_var)
        /\ ret' = Ret("VarList.add", 0, "", new_var)
        /\ UNCHANGED <<constrSide, viewSide>>

\* VarList_add_fail with the Var appended before the solver is called
VarList_add_fail_appended(lb, ub, var_type) ==
    LET b == AddBounds(lb, ub, var_type)
        new_var == Len(var_idx) + 1
    IN  /\ var_idx' = Append(var_idx, Len(vars))
        /\ vars' = Append(vars, new_var)
        /\ call' = [fn |-> "add_var", lb |-> b[1], ub |-> b[2],
                    var_type |-> var_type, args |-> <<>>]
        /\ ret' = Ret("VarList.add", 0, "SolverError", 0)
        /\ UNCHANGED <<cols, constrSide, viewSide>>

\* VarList.add when solver.add_var raises: lines 37-43 have run, the
\* exception leaves add before line 44; the Var made on line 42 is dropped
VarList_add_fail(lb, ub, var_type) ==
    LET b == AddBounds(lb, ub, var_type)
    IN  /\ call' = [fn |-> "add_var", lb |-> b[1], ub |-> b[2],
                    var_type |-> var_type, args |-> <<>>]
        /\ ret' = Ret("VarList.add", 0, "SolverError", 0)
        /\ UNCHANGED <<varSide, constrSide, viewSide>>

VarList_getitem(key) ==
    LET p == ListPos(Len(vars), key)
    IN  /\ ret' = IF p = 0 THEN Ret("VarList.getitem", key, "IndexError", 0)
                  ELSE Ret("VarList.getitem", key, "", vars[p])
        /\ UNCHANGED <<varSide, constrSide, viewSide, call>>

VarList_len ==
    /\ ret' = Ret("VarList.len", 0, "", Len(vars))
    /\ UNCHANGED <<varSide, constrSide, viewSide, call>>

VarList_update_vars(n_vars) ==
    /\ vars' = [i \in 1..n_vars |-> Len(var_idx) + i]
    /\ var_idx' = var_idx \o Range(n_vars)
    /\ ret' = Ret("VarList.update_vars", n_vars, "", 0)
    /\ UNCHANGED <<cols, constrSide, viewSide, call>>

VarList_remove(S) ==
    LET vs == SetToSeq(S)
        vlist == SortInts([j \in 1..Len(vs) |-> var_idx[vs[j]]])
        iv == MarkLive(Len(vars), vlist)
    IN  IF iv = <<-1>>
        THEN /\ ret' = Ret("VarList.remove", 0, "IndexError", 0)
             /\ UNCHANGED <<varSide, constrSide, viewSide, call>>
        ELSE /\ cols' = EngineDelete(cols, vlist)
             /\ call' = [fn |-> "remove_vars", lb |-> 0, ub |-> 0,
                         var_type |-> "", args |-> vlist]
             /\ var_idx' = Renumber(vars, var_idx, iv, 1, 0)
             /\ vars' = Compact(vars, var_idx')
             /\ ret' = Ret("VarList.remove", 0, "", 0)
             /\ UNCHANGED <<constrSide, viewSide>>

\* VarList.remove when solver.remove_vars raises: lines 59-64 have run, the
\* exception leaves remove before line 65
VarList_remove_fail(S) ==
    LET vs == SetToSeq(S)
        vlist == SortInts([j \in 1..Len(vs) |-> var_idx[vs[j]]])
        iv == MarkLive(Len(vars), vlist)
    IN  /\ iv /= <<-1>>
        /\ call' = [fn |-> "remove_vars", lb |-> 0, ub |-> 0,
                    var_type |-> "", args |-> vlist]
        /\ ret' = Ret("VarList.remove", 0, "SolverError", 0)
        /\ UNCHANGED <<varSide, constrSide, viewSide>>

----------------------------------------------------------------------------
(* ConstrList *)

ConstrList_getitem(key) ==
    LET p == ListPos(Len(constrs), key)
    IN  /\ ret' = IF p = 0 THEN Ret("ConstrList.getitem", key, "IndexError", 0)
                  ELSE Ret("ConstrList.getitem", key, "", constrs[p])
        /\ UNCHANGED <<varSide, constrSide, viewSide, call>>

ConstrList_add ==
    LET new_constr == Len(constr_idx) + 1
    IN  /\ constr_idx' = Append(constr_idx, Len(constrs))
        /\ rows' = EngineAppend(rows, new_constr)
        /\ call' = [fn |-> "add_constr", lb |-> 0, ub |-> 0,
                    var_type |-> "", args |-> <<>>]
        /\ constrs' = Append(constrs, new_constr)
        /\ ret' = Ret("ConstrList.add", 0, "", new_constr)
        /\ UNCHANGED <<varSide, viewSide>>

\* ConstrList.add when solver.add_constr raises, before line 145
ConstrList_add_fail ==
    /\ call' = [fn |-> "add_constr", lb |-> 0, ub |-> 0,
                var_type |-> "", args |-> <<>>]
    /\ ret' = Ret("ConstrList.add", 0, "SolverError", 0)
    /\ UNCHANGED <<varSide, constrSide, viewSide>>

ConstrList_len ==
    /\ ret' = Ret("ConstrList.len", 0, "", Len(constrs))
    /\ UNCHANGED <<varSide, constrSide, viewSide, call>>

ConstrList_remove(S) ==
    LET cs == SetToSeq(S)
        clist == SortInts([j \in 1..Len(cs) |-> constr_idx[cs[j]]])
        iv == MarkLive(Len(constrs), clist)
    IN  IF iv = <<-1>>
        THEN /\ ret' = Ret("ConstrList.remove", 0, "IndexError", 0)
             /\ UNCHANGED <<varSide, constrSide, viewSide, call>>
        ELSE /\ rows' = EngineDelete(rows, clist)
             /\ call' = [fn |-> "remove_constrs", lb |-> 0, ub |-> 0,
                         var_type |-> "", args |-> clist]
             /\ constr_idx' = Renumber(constrs, constr_idx, iv, 1, 0)
             /\ constrs' = Compact(constrs, constr_idx')
             /\ ret' = Ret("ConstrList.remove", 0, "", 0)
             /\ UNCHANGED <<varSide, viewSide>>

\* ConstrList.remove when solver.remove_constrs raises, before line 158
ConstrList_remove_fail(S) ==
    LET cs == SetToSeq(S)
        clist == SortInts([j \in 1..Len(cs) |-> constr_idx[cs[j]]])
        iv == MarkLive(Len(constrs), clist)
    IN  /\ iv /= <<-1>>
        /\ call' = [fn |-> "remove_constrs", lb |-> 0, ub |-> 0,
                    var_type |-> "", args |-> clist]
        /\ ret' = Ret("ConstrList.remove", 0, "SolverError", 0)
        /\ UNCHANGED <<varSide, constrSide, viewSide>>

ConstrList_update_constrs(n_constrs) ==
    /\ constrs' = [i \in 1..n_constrs |-> Len(constr_idx) + i]
    /\ constr_idx' = constr_idx \o Range(n_constrs)
    /\ ret' = Ret("ConstrList.update_constrs", n_constrs, "", 0)
    /\ UNCHANGED <<rows, varSide, viewSide, call>>

----------------------------------------------------------------------------
(* VVarList *)

VVarList_init(start, end) ==
    /\ IF start = -1
       THEN /\ v_start' = 0
            /\ v_end' = num_cols
            /\ v_scoped' = FALSE
       ELSE /\ v_start' = start
            /\ v_end' = end
            /\ v_scoped' = TRUE
    /\ ret' = Ret("VVarList.init", 0, "", 0)
    /\ UNCHANGED <<varSide, constrSide, vc_frames, call>>

\* VVarList_add with the idx taken from the end stored at construction
VVarList_add_stored(lb, ub, var_type) ==
    LET b == AddBounds(lb, ub, var_type)
    IN  /\ cols' = EngineAppend(cols, 0)
        /\ call' = [fn |-> "add_var", lb |-> b[1], ub |-> b[2],
                    var_type |-> var_type, args |-> <<>>]
        /\ ret' = Ret("VVarList.add", 0, "", v_end)
        /\ UNCHANGED <<vars, var_idx, constrSide, viewSide>>

VVarList_add(lb, ub, var_type) ==
    LET b == AddBounds(lb, ub, var_type)
    IN  /\ cols' = EngineAppend(cols, 0)
        /\ call' = [fn |-> "add_var", lb |-> b[1], ub |-> b[2],
                    var_type |-> var_type, args |-> <<>>]
        /\ ret' = Ret("VVarList.add", 0, "", num_cols)
        /\ UNCHANGED <<vars, var_idx, constrSide, viewSide>>

\* lines 112-118: the idx of the Var returned for an integer key, -1 when
\* IndexError is raised
VVarList_index(key) ==
    LET k == IF key < 0 THEN v_end - key ELSE key
    IN  IF k >= v_end THEN -1 ELSE k + v_start

VVarList_getitem(key) ==
    LET i == VVarList_index(key)
    IN  /\ ret' = IF i = -1 THEN Ret("VVarList.getitem", key, "IndexError", 0)
                  ELSE Ret("VVarList.getitem", key, "", i)
        /\ UNCHANGED <<varSide, constrSide, viewSide, call>>

\* lines 110-111, a slice key: the new view is built from key.start and
\* key.end, and a Python slice has the attributes start, stop and step only,
\* so reading key.end raises AttributeError before VVarList is called
VVarList_getitem_slice(start, stop) ==
    /\ ret' = Ret("VVarList.getitem[slice]", start, "AttributeError", 0)
    /\ UNCHANGED <<varSide, constrSide, viewSide, call>>

\* VVarList_len answering from the range stored at construction
VVarList_len_stored ==
    /\ ret' = Ret("VVarList.len", 0, "", v_end - v_start)
    /\ UNCHANGED <<varSide, constrSide, viewSide, call>>

VVarList_len ==
    /\ ret' = Ret("VVarList.len", 0, "", num_cols)
    /\ UNCHANGED <<varSide, constrSide, viewSide, call>>

----------------------------------------------------------------------------
(* VConstrList *)

VConstrList_getitem(key) ==
    /\ ret' = Ret("VConstrList.getitem", key, "", key)
    /\ UNCHANGED <<varSide, constrSide, viewSide, call>>

\* lines 186-187, a slice key: the first call of __getitem__
VConstrList_getitem_slice ==
    /\ vc_frames = 0
    /\ vc_frames' = 1
    /\ ret' = Ret("VConstrList.getitem[slice]", 0, "pending", 0)
    /\ UNCHANGED <<varSide, constrSide, v_start, v_end, v_scoped, call>>

\* line 187: return self[key] calls __getitem__ again with the same key,
\* which takes the same branch
VConstrList_getitem_slice_reenter ==
    /\ vc_frames > 0 /\ vc_frames < MaxFrames
    /\ vc_frames' = vc_frames + 1
    /\ UNCHANGED <<varSide, constrSide, v_start, v_end, v_scoped, call, ret>>

\* the interpreter's stack is full: RecursionError unwinds every frame
VConstrList_getitem_slice_overflow ==
    /\ vc_frames = MaxFrames
    /\ vc_frames' = 0
    /\ ret' = Ret("VConstrList.getitem[slice]", 0, "RecursionError", 0)
    /\ UNCHANGED <<varSide, constrSide, v_start, v_end, v_scoped, call>>

VConstrList_len ==
    /\ ret' = Ret("VConstrList.len", 0, "", num_rows)
    /\ UNCHANGED <<varSide, constrSide, viewSide, call>>

----------------------------------------------------------------------------
(* The solver changing its own columns and rows while a callback runs *)

Solver_add_col ==
    /\ cols' = EngineAppend(cols, 0)
    /\ ret' = Ret("solver", 0, "", 0)
    /\ UNCHANGED <<vars, var_idx, constrSide, viewSide, call>>

Solver_remove_col(p) ==
    /\ cols' = EngineDelete(cols, <<p>>)
    /\ ret' = Ret("solver", 0, "", 0)
    /\ UNCHANGED <<vars, var_idx, constrSide, viewSide, call>>

Solver_add_row ==
    /\ rows' = EngineAppend(rows, 0)
    /\ ret' = Ret("solver", 0, "", 0)
    /\ UNCHANGED <<constrs, constr_idx, varSide, viewSide, call>>

Solver_remove_row(p) ==
    /\ rows' = EngineDelete(rows, <<p>>)
    /\ ret' = Ret("solver", 0, "", 0)
    /\ UNCHANGED <<constrs, constr_idx, varSide, viewSide, call>>

----------------------------------------------------------------------------
(* Specifications *)

AllVars == 1..Len(var_idx)
AllConstrs == 1..Len(constr_idx)
LiveVars == SeqElems(vars)
LiveConstrs == SeqElems(constrs)
Created == Len(var_idx) + Len(constr_idx)

\* The caching collections, used in any way a caller can: remove is given
\* any set of Var / Constr objects the collection ever created.
Next ==
    \/ \E t \in VarTypes : Created < MaxObjects /\ VarList_add(-1, 2, t)
    \/ \E S \in SUBSET AllVars : VarList_remove(S)
    \/ \E n \in 0..MaxObjects : Created + n <= MaxObjects /\ VarList_update_vars(n)
    \/ Created < MaxObjects /\ ConstrList_add
    \/ \E S \in SUBSET AllConstrs : ConstrList_remove(S)
    \/ \E n \in 0..MaxObjects : Created + n <= MaxObjects /\ ConstrList_update_constrs(n)
    \/ \E t \in VarTypes : VarList_add_fail(-1, 2, t)
    \/ \E S \in SUBSET AllVars : VarList_remove_fail(S)
    \/ ConstrList_add_fail
    \/ \E S \in SUBSET AllConstrs : ConstrList_remove_fail(S)

Spec == Init /\ [][Next]_vars_all

\* Lookups on the caching collections.
NextGet ==
    \/ Created < MaxObjects /\ VarList_add(-1, 2, CONTINUOUS)
    \/ \E S \in SUBSET LiveVars : VarList_remove(S)
    \/ \E n \in 0..MaxObjects : Created + n <= MaxObjects /\ VarList_update_vars(n)
    \/ \E k \in Keys : VarList_getitem(k)
    \/ VarList_len
    \/ Created < MaxObjects /\ ConstrList_add
    \/ \E S \in SUBSET LiveConstrs : ConstrList_remove(S)
    \/ \E n \in 0..MaxObjects : Created + n <= MaxObjects /\ ConstrList_update_constrs(n)
    \/ \E k \in Keys : ConstrList_getitem(k)
    \/ ConstrList_len

SpecGet == Init /\ [][NextGet]_vars_all

\* The caching collections as the only users of the solver, remove being
\* given live objects only.
NextLive ==
    \/ \E t \in VarTypes : Created < MaxLive /\ VarList_add(-1, 2, t)
    \/ \E S \in SUBSET LiveVars : VarList_remove(S)
    \/ VarList_len
    \/ Created < MaxLive /\ ConstrList_add
    \/ \E S \in SUBSET LiveConstrs : ConstrList_remove(S)
    \/ ConstrList_len

SpecLive == Init /\ [][NextLive]_vars_all

\* The views inside a callback: the solver changes on its own.  A scoped
\* view is built over a window [s, e) of the columns the solver has then.
\* Calls are synchronous: nothing else starts while a lookup is in progress.
Idle == vc_frames = 0

NextView ==
    \/ \E s \in (-1)..MaxCols, e \in (-1)..MaxCols :
          /\ Idle
          /\ s = -1 => e = -1
          /\ s >= 0 => (s <= e /\ e <= num_cols)
          /\ VVarList_init(s, e)
    \/ \E t \in VarTypes : Idle /\ num_cols < MaxCols /\ VVarList_add(-1, 2, t)
    \/ \E k \in Keys : Idle /\ VVarList_getitem(k)
    \/ \E a \in 0..MaxCols, b \in 0..MaxCols :
          Idle /\ a <= b /\ VVarList_getitem_slice(a, b)
    \/ Idle /\ VVarList_len
    \/ \E k \in Keys : Idle /\ VConstrList_getitem(k)
    \/ VConstrList_getitem_slice
    \/ VConstrList_getitem_slice_reenter
    \/ VConstrList_getitem_slice_overflow
    \/ Idle /\ VConstrList_len
    \/ Idle /\ num_cols < MaxCols /\ Solver_add_col
    \/ \E p \in 0..(num_cols - 1) : Idle /\ Solver_remove_col(p)
    \/ Idle /\ num_rows < MaxRows /\ Solver_add_row
    \/ \E p \in 0..(num_rows - 1) : Idle /\ Solver_remove_row(p)

SpecView == Init /\ [][NextView]_vars_all

\* The two add operations on variables side by side.
NextAdd ==
    \/ \E lb \in LowerBounds, ub \in UpperBounds, t \in VarTypes :
          num_cols < MaxCols /\ VarList_add(lb, ub, t)
    \/ \E lb \in LowerBounds, ub \in UpperBounds, t \in VarTypes :
          num_cols < MaxCols /\ VVarList_add(lb, ub, t)
    \/ VVarList_init(-1, -1)

SpecAdd == Init /\ [][NextAdd]_vars_all

----------------------------------------------------------------------------
(* Properties *)

\* sequence[i].idx = i at every position of a caching sequence
Aligned(seq, idx) == \A i \in 1..Len(seq) : idx[seq[i]] = i - 1

\* C1: in every state reached by add, remove and rebuild, the object at
\* position i of VarList's and of ConstrList's sequence has idx i.
C1_IndexIsPosition ==
    /\ Aligned(vars, var_idx)
    /\ Aligned(constrs, constr_idx)

\* C1 witness: a remove has dropped the first Var and the survivor that
\* moved to position 0 carries idx 0.
C1_Witness ==
    /\ ret.op = "VarList.remove" /\ ret.exc = ""
    /\ Len(vars) >= 1 /\ vars[1] /= 1
    /\ var_idx[vars[1]] = 0

\* C2: with the solver changed only through the caching collections by add
\* and remove of live objects, len(vars) = num_cols and len(constrs) = num_rows.
C2_LengthIsEngineCount ==
    /\ Len(vars) = num_cols
    /\ Len(constrs) = num_rows

\* C2 witness: right after a remove that took some but not all Vars.
C2_Witness ==
    /\ ret.op = "VarList.remove" /\ ret.exc = ""
    /\ Len(vars) >= 2 /\ Len(vars) < Len(var_idx)
    /\ num_cols = Len(vars)

\* the state after remove(S) on a sequence of live objects
RemovePost(seq, idx, seq2, idx2, S) ==
    LET live == SeqElems(seq)
        kept == live \ S
    IN  /\ Len(seq2) = Len(seq) - Cardinality(S)
        /\ SeqElems(seq2) = kept
        /\ \A h \in kept :
              /\ idx2[h] = Cardinality({g \in kept : idx[g] < idx[h]})
              /\ seq2[idx2[h] + 1] = h

\* C3: remove(S) with S live leaves length L - |S|, and every survivor's new
\* idx is the number of survivors that had a smaller idx before.
C3_RemoveCompacts ==
    [][/\ \A S \in SUBSET LiveVars :
             VarList_remove(S) => RemovePost(vars, var_idx, vars', var_idx', S)
       /\ \A S \in SUBSET LiveConstrs :
             ConstrList_remove(S) =>
                 RemovePost(constrs, constr_idx, constrs', constr_idx', S)
      ]_vars_all

\* C3 witness: x0..x4 added, {x1, x3} removed: x0, x2, x4 at 0, 1, 2.
C3_Witness ==
    /\ ret.op = "VarList.remove"
    /\ vars = <<1, 3, 5>>
    /\ var_idx = <<0, -1, 1, -1, 2>>

\* C4: every object passed to remove (live objects) has idx -1 afterwards and
\* is out of the sequence, and an object whose idx is -1 keeps idx -1 and
\* stays out of the sequence through every later add, remove and rebuild.
C4_RemovedStaysRemoved ==
    [][/\ \A S \in SUBSET LiveVars :
             VarList_remove(S) =>
                 \A h \in S : var_idx'[h] = -1 /\ h \notin SeqElems(vars')
       /\ \A S \in SUBSET LiveConstrs :
             ConstrList_remove(S) =>
                 \A h \in S : constr_idx'[h] = -1 /\ h \notin SeqElems(constrs')
       /\ \A h \in AllVars :
             var_idx[h] = -1 => var_idx'[h] = -1 /\ h \notin SeqElems(vars')
       /\ \A h \in AllConstrs :
             constr_idx[h] = -1 =>
                 constr_idx'[h] = -1 /\ h \notin SeqElems(constrs')
      ]_vars_all

\* C4 witness: Var 1 was removed and the collection has been added to since.
C4_Witness ==
    /\ ret.op = "VarList.add" /\ ret.exc = ""
    /\ Len(vars) = 2
    /\ var_idx[1] = -1

\* the call add_var(lb, ub, var_type) as recorded
AddVarCall(lb, ub, var_type) ==
    [fn |-> "add_var", lb |-> lb, ub |-> ub, var_type |-> var_type, args |-> <<>>]

\* C5: VarList.add and VVarList.add hand add_var the bounds 0 and 1 for the
\* binary kind whatever the caller gave, and the caller's bounds otherwise.
C5_BinaryBounds ==
    [][\A lb \in LowerBounds, ub \in UpperBounds, t \in VarTypes :
          (VarList_add(lb, ub, t) \/ VVarList_add(lb, ub, t)) =>
              call' = IF t = BINARY THEN AddVarCall(0, 1, t)
                      ELSE AddVarCall(lb, ub, t)
      ]_vars_all

\* C5 witness: a binary Var added through the view after one added through
\* VarList.
C5_Witness ==
    /\ ret.op = "VVarList.add"
    /\ call.fn = "add_var" /\ call.var_type = BINARY
    /\ Len(vars) >= 1

\* the outcome of the last integer lookup on a caching sequence under the
\* rule "inside [0, len) the object at that position, else range failure"
GetInRange(seq) ==
    IF 0 <= ret.key /\ ret.key < Len(seq)
    THEN ret.exc = "" /\ ret.val = seq[ret.key + 1]
    ELSE ret.exc = "IndexError"

\* C6 as stated: every key outside [0, len), negative keys included, is a
\* range failure.
C6_Original ==
    /\ ret.op = "VarList.getitem" => GetInRange(vars)
    /\ ret.op = "ConstrList.getitem" => GetInRange(constrs)

\* the same with Python's negative keys
GetPython(seq) ==
    IF 0 <= ret.key /\ ret.key < Len(seq)
    THEN ret.exc = "" /\ ret.val = seq[ret.key + 1]
    ELSE IF 0 - Len(seq) <= ret.key /\ ret.key < 0
    THEN ret.exc = "" /\ ret.val = seq[Len(seq) + ret.key + 1]
    ELSE ret.exc = "IndexError"

\* C6 amended: a key in [0, len) returns the object at that position, a key
\* in [-len, 0) the object at position len + key, and every key outside
\* [-len, len) is a range failure.
C6_Amended ==
    /\ ret.op = "VarList.getitem" => GetPython(vars)
    /\ ret.op = "ConstrList.getitem" => GetPython(constrs)

\* C6 witness: the key -1 on a sequence of two returned the last Var.
C6_Witness ==
    /\ ret.op = "VarList.getitem" /\ ret.key = -1
    /\ Len(vars) = 2 /\ ret.exc = "" /\ ret.val = vars[2]

\* C7: an integer lookup on a view never leaves the addressed range: scoped
\* to [start, end), key k >= 0 gives idx start + k when start + k < end and a
\* range failure otherwise; unscoped, a key at or above the solver's count is
\* a range failure.
C7_ViewLookupInRange ==
    /\ (ret.op = "VVarList.getitem" /\ v_scoped /\ ret.key >= 0) =>
          IF v_start + ret.key < v_end
          THEN ret.exc = "" /\ ret.val = v_start + ret.key
          ELSE ret.exc = "IndexError"
    /\ (ret.op = "VVarList.getitem" /\ ~v_scoped /\ ret.key >= num_cols) =>
          ret.exc = "IndexError"
    /\ (ret.op = "VConstrList.getitem" /\ ret.key >= num_rows) =>
          ret.exc = "IndexError"

\* C8: on a view over a non-empty range a key k with -width <= k <= -1
\* succeeds and resolves to end + k.
C8_NegativeKey ==
    (/\ ret.op = "VVarList.getitem"
     /\ v_end > v_start
     /\ ret.key <= -1 /\ ret.key >= v_start - v_end) =>
        ret.exc = "" /\ ret.val = v_end + ret.key

\* C9: len() of an unscoped view is the solver's count at the moment of the
\* call, however the solver's columns and rows changed before it.
C9_UnscopedLenIsLive ==
    /\ (ret.op = "VVarList.len" /\ ~v_scoped) => ret.val = num_cols
    /\ ret.op = "VConstrList.len" => ret.val = num_rows

\* C9 witness: len() on an unscoped view after the solver's column count
\* moved away from the count at construction.
C9_Witness ==
    /\ ret.op = "VVarList.len" /\ ~v_scoped
    /\ num_cols /= v_end /\ num_cols > 0
    /\ ret.val = num_cols

\* C10: len() of a view scoped to [start, end) is end - start.
C10_ScopedLenIsWidth ==
    (ret.op = "VVarList.len" /\ v_scoped) => ret.val = v_end - v_start

\* C11: an unscoped view resolves its range against the solver's live count:
\* whatever the count was at construction, a key k with 0 <= k < len() returns
\* a Var with idx k and a key at or above len() is refused.
C11_UnscopedLookupIsLive ==
    (ret.op = "VVarList.getitem" /\ ~v_scoped /\ ret.key >= 0) =>
        IF ret.key < num_cols
        THEN ret.exc = "" /\ ret.val = ret.key
        ELSE ret.exc = "IndexError"

\* C12: a slice lookup on a VVarList returns, without failing, a new view
\* scoped to the slice's window and leaves the original view as it was.
C12_SliceReturnsView ==
    [][\A a \in 0..MaxCols, b \in 0..MaxCols :
          VVarList_getitem_slice(a, b) => (ret'.exc = "" /\ UNCHANGED viewSide)
      ]_vars_all

\* C13: a slice lookup on a VConstrList ends with a view or a failure of its
\* own after a bounded number of steps: it does not call itself with the same
\* key until the interpreter's stack is used up, whatever the stack's size.
C13_SliceLookupTerminates ==
    /\ vc_frames < MaxFrames
    /\ ret.exc /= "RecursionError"

\* C14: VVarList.add returns a Var whose idx is the solver's column count
\* read during the call, makes one add_var call after which the solver has
\* one column more, the new one at that idx, and leaves the view's own
\* fields as they were.
C14_ViewAddUsesLiveCount ==
    [][\A lb \in LowerBounds, ub \in UpperBounds, t \in VarTypes :
          VVarList_add(lb, ub, t) =>
              /\ ret'.exc = "" /\ ret'.val = num_cols
              /\ call'.fn = "add_var"
              /\ Len(cols') = num_cols + 1
              /\ ret'.val + 1 = Len(cols')
              /\ \A i \in 1..num_cols : cols'[i] = cols[i]
              /\ UNCHANGED <<v_start, v_end, v_scoped>>
      ]_vars_all

\* C14 witness: an add through an unscoped view when the solver's count is
\* no longer the one stored at construction.
C14_Witness ==
    /\ ret.op = "VVarList.add" /\ ~v_scoped
    /\ ret.val /= v_end /\ ret.val >= 2
    /\ num_cols = ret.val + 1

\* C15: every position a caching collection hands to remove_vars or
\* remove_constrs lies in [0, len), also when remove is given an object
\* that was removed before; -1 is never handed over.
C15_NoSentinelToSolver ==
    [][/\ \A S \in SUBSET AllVars :
             (VarList_remove(S) /\ ret'.exc = "") =>
                 \A j \in 1..Len(call'.args) :
                     0 <= call'.args[j] /\ call'.args[j] < Len(vars)
       /\ \A S \in SUBSET AllConstrs :
             (ConstrList_remove(S) /\ ret'.exc = "") =>
                 \A j \in 1..Len(call'.args) :
                     0 <= call'.args[j] /\ call'.args[j] < Len(constrs)
      ]_vars_all

\* C16: remove with the empty set leaves the sequence, every idx and the
\* solver's columns and rows as they were.
C16_RemoveNothing ==
    [][/\ VarList_remove({}) => UNCHANGED <<vars, var_idx, cols, constrSide>>
       /\ ConstrList_remove({}) => UNCHANGED <<constrs, constr_idx, rows, varSide>>
      ]_vars_all

\* C16 witness: remove of the empty set on a collection of three Vars.
C16_Witness ==
    /\ ret.op = "VarList.remove" /\ ret.exc = ""
    /\ call.fn = "remove_vars" /\ call.args = <<>>
    /\ Len(vars) = 3

\* the state after a rebuild to n objects
RebuildPost(seq, idx, seq2, idx2, n) ==
    /\ Len(seq2) = n
    /\ \A i \in 1..n :
          /\ seq2[i] \notin 1..Len(idx)
          /\ idx2[seq2[i]] = i - 1
          /\ \A j \in 1..n : seq2[i] = seq2[j] => i = j
    /\ \A h \in 1..Len(idx) : idx2[h] = idx[h]

\* C17: update_vars(n) / update_constrs(n) leave a sequence of n new objects,
\* none of them created before, with idx 0..n-1 in order; they call nothing
\* on the solver and change no idx of an object created earlier.
C17_Rebuild ==
    [][/\ \A n \in 0..(MaxObjects + 1) :
             VarList_update_vars(n) =>
                 /\ RebuildPost(vars, var_idx, vars', var_idx', n)
                 /\ UNCHANGED <<cols, rows, call>>
       /\ \A n \in 0..(MaxObjects + 1) :
             ConstrList_update_constrs(n) =>
                 /\ RebuildPost(constrs, constr_idx, constrs', constr_idx', n)
                 /\ UNCHANGED <<cols, rows, call>>
      ]_vars_all

\* C17 witness: a rebuild to two Vars of a collection that had made one.
C17_Witness ==
    /\ ret.op = "VarList.update_vars" /\ ret.key = 2
    /\ Len(var_idx) = 3 /\ vars = <<2, 3>>

\* C18: remove of one object whose idx is already -1 changes nothing: the
\* sequence and every idx stay as they were.
C18_DoubleRemoveIsNoOp ==
    [][/\ \A h \in AllVars :
             (var_idx[h] = -1 /\ VarList_remove({h})) =>
                 UNCHANGED <<vars, var_idx>>
       /\ \A h \in AllConstrs :
             (constr_idx[h] = -1 /\ ConstrList_remove({h})) =>
                 UNCHANGED <<constrs, constr_idx>>
      ]_vars_all

\* C19: with the solver as an ordered array, the entity at position i of the
\* solver is the one the object at position i of the sequence was made for.
C19_AlignedWithSolver ==
    /\ cols = vars
    /\ rows = constrs

\* C19 witness: after a remove from the middle of three Vars.
C19_Witness ==
    /\ ret.op = "VarList.remove" /\ ret.exc = ""
    /\ vars = <<1, 3>> /\ cols = <<1, 3>>

\* C20: a step in which the solver's call fails leaves both sequences and
\* every idx as they were.
C20_SolverFailureChangesNothing ==
    [][ret'.exc = "SolverError" =>
          UNCHANGED <<vars, var_idx, constrs, constr_idx>>
      ]_vars_all

\* C20 witness: remove_vars failed on a remove of the first of two Vars.
C20_Witness ==
    /\ ret.op = "VarList.remove" /\ ret.exc = "SolverError"
    /\ call.fn = "remove_vars" /\ call.args = <<0>>
    /\ Len(vars) = 2 /\ var_idx = <<0, 1>>
====
